---- MODULE Spec2Model ----
(***************************************************************************)
(* A model of the ECB exchange-rate ETL (src/src/ecb_etl.py) and of its     *)
(* entry point (src/src/main.py).                                           *)
(*                                                                          *)
(* Texts (entry names, column names, date texts, rate texts) are TLA+       *)
(* strings handled character by character.  A float is a record            *)
(* [k, n, d]: k = "fin" is the rational n/d in lowest terms, k = "inf" is   *)
(* the infinity of sign n, k = "nan" is not-a-number.  A date is the tuple  *)
(* <<year, month, day>>.  A dict is a function on its set of keys.  The     *)
(* result of a call is [ok, val, err]; err is [type, msg, entries], the     *)
(* class of the raised exception, its message and, for the one message      *)
(* that embeds the archive listing, that listing.                           *)
(*                                                                          *)
(* A value that the code computes once and uses several times is passed to  *)
(* a helper operator as a parameter, so a long function of the source is a  *)
(* chain of operators, one per stage.                                       *)
(***************************************************************************)
EXTENDS Integers, Sequences, FiniteSets, TLC

(***************************************************************************)
(* Text                                                                     *)
(***************************************************************************)
UpperLetters == "ABCDEFGHIJKLMNOPQRSTUVWXYZ"

LowerLetters == "abcdefghijklmnopqrstuvwxyz"

Digits == "0123456789"

Whitespace == {" ", "\t", "\n", "\r"}

Char(s, i) == SubSeq(s, i, i)

\* The position of the one-character text c in s, 0 when it is not there.
IndexOf(c, s) ==
    IF \E i \in 1..Len(s) : Char(s, i) = c
    THEN CHOOSE i \in 1..Len(s) : Char(s, i) = c /\ \A j \in 1..(i - 1) : Char(s, j) # c
    ELSE 0

LowerChar(c) ==
    IF IndexOf(c, UpperLetters) > 0 THEN Char(LowerLetters, IndexOf(c, UpperLetters)) ELSE c

UpperChar(c) ==
    IF IndexOf(c, LowerLetters) > 0 THEN Char(UpperLetters, IndexOf(c, LowerLetters)) ELSE c

\* str.lower()
RECURSIVE Lower(_)
Lower(s) == IF s = "" THEN "" ELSE LowerChar(Head(s)) \o Lower(Tail(s))

\* str.upper()
RECURSIVE Upper(_)
Upper(s) == IF s = "" THEN "" ELSE UpperChar(Head(s)) \o Upper(Tail(s))

RECURSIVE LStrip(_)
LStrip(s) == IF s # "" /\ Head(s) \in Whitespace THEN LStrip(Tail(s)) ELSE s

RECURSIVE RStrip(_)
RStrip(s) ==
    IF s # "" /\ Char(s, Len(s)) \in Whitespace THEN RStrip(SubSeq(s, 1, Len(s) - 1)) ELSE s

\* str.strip()
Strip(s) == RStrip(LStrip(s))

\* str.endswith(suffix)
EndsWith(s, suffix) ==
    Len(s) >= Len(suffix) /\ SubSeq(s, Len(s) - Len(suffix) + 1, Len(s)) = suffix

IsDigit(c) == \E i \in 1..10 : Char(Digits, i) = c

AllDigits(s) == Len(s) > 0 /\ \A i \in 1..Len(s) : IsDigit(Char(s, i))

DigitValue(c) == (CHOOSE i \in 1..10 : Char(Digits, i) = c) - 1

RECURSIVE ToNat(_)
ToNat(s) ==
    IF s = "" THEN 0
    ELSE 10 * ToNat(SubSeq(s, 1, Len(s) - 1)) + DigitValue(Char(s, Len(s)))

\* The position of the first whitespace character of s, 0 when there is none.
FirstSpace(s) ==
    IF \E i \in 1..Len(s) : Char(s, i) \in Whitespace
    THEN CHOOSE i \in 1..Len(s) :
            /\ Char(s, i) \in Whitespace
            /\ \A j \in 1..(i - 1) : Char(s, j) \notin Whitespace
    ELSE 0

\* The text before position i of s and the text after it; all and none when i = 0.
Before(s, i) == IF i = 0 THEN s ELSE SubSeq(s, 1, i - 1)

After(s, i) == IF i = 0 THEN "" ELSE SubSeq(s, i + 1, Len(s))

\* The text before the first whitespace of s, and the text after that whitespace.
Token(s) == Before(s, FirstSpace(s))

AfterToken(s) == LStrip(After(s, FirstSpace(s)))

(***************************************************************************)
(* Results and errors                                                       *)
(***************************************************************************)
NoErr == [type |-> "", msg |-> "", entries |-> <<>>]

Err(type, msg) == [type |-> type, msg |-> msg, entries |-> <<>>]

Ok(v) == [ok |-> TRUE, val |-> v, err |-> NoErr]

Fail(e, default) == [ok |-> FALSE, val |-> default, err |-> e]

(***************************************************************************)
(* parse_ecb_date.  fromisoformat is modelled on the form YYYY-MM-DD.       *)
(***************************************************************************)
NoDate == <<0, 0, 0>>

MonthNames ==
    << "JANUARY", "FEBRUARY", "MARCH", "APRIL", "MAY", "JUNE", "JULY",
       "AUGUST", "SEPTEMBER", "OCTOBER", "NOVEMBER", "DECEMBER" >>

IsLeap(y) == (y % 4 = 0 /\ y % 100 # 0) \/ y % 400 = 0

DaysIn(y, m) ==
    IF m = 2 THEN (IF IsLeap(y) THEN 29 ELSE 28)
    ELSE IF m \in {4, 6, 9, 11} THEN 30 ELSE 31

ValidDate(y, m, d) == y >= 1 /\ m \in 1..12 /\ d \in 1..DaysIn(y, m)

DateOrError(y, m, d, message) ==
    IF ValidDate(y, m, d) THEN Ok(<<y, m, d>>) ELSE Fail(Err("ValueError", message), NoDate)

IsoShape(s) ==
    /\ Len(s) = 10
    /\ Char(s, 5) = "-"
    /\ Char(s, 8) = "-"
    /\ AllDigits(SubSeq(s, 1, 4))
    /\ AllDigits(SubSeq(s, 6, 7))
    /\ AllDigits(SubSeq(s, 9, 10))

\* date.fromisoformat(s)
FromIsoFormat(s) ==
    IF IsoShape(s)
    THEN DateOrError(ToNat(SubSeq(s, 1, 4)), ToNat(SubSeq(s, 6, 7)), ToNat(SubSeq(s, 9, 10)),
                     "Invalid isoformat string")
    ELSE Fail(Err("ValueError", "Invalid isoformat string"), NoDate)

\* The number of the month named by the upper-cased text, 0 when it names none.
MonthNumber(name) ==
    IF \E k \in 1..12 : MonthNames[k] = name
    THEN CHOOSE k \in 1..12 : MonthNames[k] = name
    ELSE 0

StrptimeDate(d, month, y) ==
    IF d \notin 1..31
    THEN Fail(Err("ValueError", "time data does not match format '%d %B %Y'"), NoDate)
    ELSE DateOrError(y, month, d, "day is out of range for month")

StrptimeFields(dTxt, month, yTxt) ==
    IF /\ AllDigits(dTxt) /\ Len(dTxt) <= 2
       /\ month > 0
       /\ AllDigits(yTxt) /\ Len(yTxt) = 4
    THEN StrptimeDate(ToNat(dTxt), month, ToNat(yTxt))
    ELSE Fail(Err("ValueError", "time data does not match format '%d %B %Y'"), NoDate)

\* datetime.strptime(s, "%d %B %Y").date(): a day of one or two digits, a full
\* English month name in any case, a year of four digits, separated by whitespace.
StrptimeLong(s) ==
    StrptimeFields(Token(s), MonthNumber(Upper(Token(AfterToken(s)))), AfterToken(AfterToken(s)))

FirstOk(iso, s) == IF iso.ok THEN iso ELSE StrptimeLong(s)

parse_ecb_date(value) == FirstOk(FromIsoFormat(Strip(value)), Strip(value))

\* The order of datetime.date values.
DateKey(d) == d[1] * 10000 + d[2] * 100 + d[3]

(***************************************************************************)
(* float.  float(text) takes surrounding whitespace, a sign, then inf,      *)
(* infinity or nan in any case, or a decimal number with an optional        *)
(* fraction and an optional exponent.  The value of a decimal number is     *)
(* kept exact: binary rounding and overflow are not modelled.               *)
(***************************************************************************)
RECURSIVE Gcd(_, _)
Gcd(a, b) == IF b = 0 THEN a ELSE Gcd(b, a % b)

Abs(n) == IF n < 0 THEN -n ELSE n

\* The float n/d, d > 0, in lowest terms.
Fin(n, d) == [k |-> "fin", n |-> n \div Gcd(Abs(n), d), d |-> d \div Gcd(Abs(n), d)]

Inf(sign) == [k |-> "inf", n |-> sign, d |-> 1]

NaN == [k |-> "nan", n |-> 0, d |-> 1]

IsFinite(x) == x.k = "fin"

RECURSIVE Pow10(_)
Pow10(e) == IF e = 0 THEN 1 ELSE 10 * Pow10(e - 1)

\* A run of digits in which single underscores may separate digits.
IsDigitRun(s) ==
    /\ Len(s) > 0
    /\ IsDigit(Char(s, 1))
    /\ IsDigit(Char(s, Len(s)))
    /\ \A i \in 1..Len(s) : IsDigit(Char(s, i)) \/ Char(s, i) = "_"
    /\ \A i \in 1..(Len(s) - 1) : ~(Char(s, i) = "_" /\ Char(s, i + 1) = "_")

RECURSIVE DropUnderscores(_)
DropUnderscores(s) ==
    IF s = "" THEN ""
    ELSE IF Head(s) = "_" THEN DropUnderscores(Tail(s))
    ELSE Head(s) \o DropUnderscores(Tail(s))

HasSign(s) == s # "" /\ Head(s) \in {"+", "-"}

SignOf(s) == IF HasSign(s) /\ Head(s) = "-" THEN -1 ELSE 1

Unsigned(s) == IF HasSign(s) THEN Tail(s) ELSE s

\* sign * (intD.fracD) * 10^(eSign * e), the digits without underscores.
DecimalValue(sign, intD, fracD, eSign, e) ==
    IF eSign = 1
    THEN Fin(sign * (ToNat(intD) * Pow10(Len(fracD)) + ToNat(fracD)) * Pow10(e),
             Pow10(Len(fracD)))
    ELSE Fin(sign * (ToNat(intD) * Pow10(Len(fracD)) + ToNat(fracD)),
             Pow10(Len(fracD)) * Pow10(e))

DecimalParts(sign, intTxt, fracTxt, hasExp, expTxt) ==
    IF /\ intTxt = "" \/ IsDigitRun(intTxt)
       /\ fracTxt = "" \/ IsDigitRun(fracTxt)
       /\ intTxt # "" \/ fracTxt # ""
       /\ ~hasExp \/ IsDigitRun(Unsigned(expTxt))
    THEN Ok(DecimalValue(sign, DropUnderscores(intTxt), DropUnderscores(fracTxt),
                         SignOf(expTxt), ToNat(DropUnderscores(Unsigned(expTxt)))))
    ELSE Fail(Err("ValueError", "could not convert string to float"), NaN)

DecimalMantissa(sign, mant, dot, hasExp, expTxt) ==
    DecimalParts(sign, Before(mant, dot), After(mant, dot), hasExp, expTxt)

Decimal(sign, body, ePos) ==
    DecimalMantissa(sign, Before(body, ePos), IndexOf(".", Before(body, ePos)),
                    ePos > 0, After(body, ePos))

FloatOfBody(sign, body, low) ==
    IF low \in {"inf", "infinity"} THEN Ok(Inf(sign))
    ELSE IF low = "nan" THEN Ok(NaN)
    ELSE Decimal(sign, body, IndexOf("e", low))

FloatOfSigned(sign, body) == FloatOfBody(sign, body, Lower(body))

\* float(text)
FloatOf(text) == FloatOfSigned(SignOf(Strip(text)), Unsigned(Strip(text)))

AddFin(x, y) == Fin(x.n * y.d + y.n * x.d, x.d * y.d)

RECURSIVE SumFin(_)
SumFin(values) ==
    IF values = <<>> THEN Fin(0, 1) ELSE AddFin(Head(values), SumFin(Tail(values)))

Has(values, x) == \E i \in 1..Len(values) : values[i] = x

\* math.fsum: infinities of both signs raise ValueError; otherwise a nan gives
\* nan, an infinity gives that infinity, and finite values give their sum.
Fsum(values) ==
    IF Has(values, Inf(1)) /\ Has(values, Inf(-1))
    THEN Fail(Err("ValueError", "-inf + inf in fsum"), NaN)
    ELSE IF Has(values, NaN) THEN Ok(NaN)
    ELSE IF Has(values, Inf(1)) THEN Ok(Inf(1))
    ELSE IF Has(values, Inf(-1)) THEN Ok(Inf(-1))
    ELSE Ok(SumFin(values))

DivideBy(total, count) ==
    IF ~total.ok THEN total
    ELSE IF IsFinite(total.val) THEN Ok(Fin(total.val.n, total.val.d * count))
    ELSE total

\* statistics.fmean of a non-empty list: fsum(values) / len(values).
Fmean(values) == DivideBy(Fsum(values), Len(values))

RECURSIVE NatText(_)
NatText(n) ==
    IF n < 10 THEN Char(Digits, n + 1) ELSE NatText(n \div 10) \o Char(Digits, (n % 10) + 1)

RECURSIVE ZeroPad(_, _)
ZeroPad(s, width) == IF Len(s) >= width THEN s ELSE ZeroPad("0" \o s, width)

\* The quotient of scaled by d, rounded to the nearest integer, ties to even.
RoundDiv(scaled, d) ==
    IF 2 * (scaled % d) > d \/ (2 * (scaled % d) = d /\ (scaled \div d) % 2 = 1)
    THEN (scaled \div d) + 1
    ELSE scaled \div d

FixedText(negative, whole, micro) ==
    (IF negative THEN "-" ELSE "")
        \o NatText(whole + (micro \div 1000000))
        \o "." \o ZeroPad(NatText(micro % 1000000), 6)

\* format(x, ".6f")
Format6(x) ==
    IF x.k = "nan" THEN "nan"
    ELSE IF x.k = "inf" THEN (IF x.n < 0 THEN "-inf" ELSE "inf")
    ELSE FixedText(x.n < 0, Abs(x.n) \div x.d, RoundDiv((Abs(x.n) % x.d) * 1000000, x.d))

(***************************************************************************)
(* Dicts, snapshots, list.sort                                              *)
(***************************************************************************)
EmptyDict == << >>

\* d[k] = v on a dict.
Put(d, k, v) == [x \in (DOMAIN d) \cup {k} |-> IF x = k THEN v ELSE d[x]]

InSeq(x, seq) == \E i \in 1..Len(seq) : seq[i] = x

RatesSnapshot(as_of, rates) == [as_of |-> as_of, rates |-> rates]

NoSnapshot == RatesSnapshot(NoDate, EmptyDict)

\* One step of the stable sort: s goes after every element whose key is not greater.
RECURSIVE InsertByAsOf(_, _)
InsertByAsOf(sorted, s) ==
    IF sorted = <<>> THEN <<s>>
    ELSE IF DateKey(Head(sorted).as_of) <= DateKey(s.as_of)
    THEN <<Head(sorted)>> \o InsertByAsOf(Tail(sorted), s)
    ELSE <<s>> \o sorted

RECURSIVE SortInto(_, _)
SortInto(rest, sorted) ==
    IF rest = <<>> THEN sorted ELSE SortInto(Tail(rest), InsertByAsOf(sorted, Head(rest)))

\* The list left as the loop built it.
Unsorted(snapshots) == snapshots

\* snapshots.sort(key=lambda s: s.as_of): ascending and stable.
SortByAsOf(snapshots) == SortInto(snapshots, <<>>)

(***************************************************************************)
(* read_single_file_from_zip                                                *)
(***************************************************************************)
PREFERRED ==
    << "eurofxref-daily.xml", "eurofxref-hist.xml", "eurofxref.csv", "eurofxref-hist.csv" >>

\* A filter that lets every entry through.
AnyFile(n) == TRUE

\* n.lower().endswith((".xml", ".csv"))
IsDataFile(n) == EndsWith(Lower(n), ".xml") \/ EndsWith(Lower(n), ".csv")

\* The first listed entry that is one of the preferred names ("" when none is).
FirstListed(names) ==
    IF \E i \in 1..Len(names) : InSeq(names[i], PREFERRED)
    THEN names[CHOOSE i \in 1..Len(names) :
                   /\ InSeq(names[i], PREFERRED)
                   /\ \A j \in 1..(i - 1) : ~InSeq(names[j], PREFERRED)]
    ELSE ""

\* next((p for p in preferred if p in names), None); "" stands for None.
FirstPreferred(names) ==
    IF \E i \in 1..Len(PREFERRED) : InSeq(PREFERRED[i], names)
    THEN PREFERRED[CHOOSE i \in 1..Len(PREFERRED) :
                       /\ InSeq(PREFERRED[i], names)
                       /\ \A j \in 1..(i - 1) : ~InSeq(PREFERRED[j], names)]
    ELSE ""

DataFiles(names) == SelectSeq(names, IsDataFile)

NoFilesError == Err("ValueError", "ZIP contains no files.")

\* The error of an archive without entries, raised for another reason.
SameAsNoFiles(names) == NoFilesError

\* ValueError(f"No supported data file found in ZIP. Entries: {names}")
NoDataFileError(names) ==
    [type |-> "ValueError", msg |-> "No supported data file found in ZIP. Entries: ",
     entries |-> names]

FirstDataFile(names, data_files) ==
    IF data_files = <<>> THEN Fail(NoDataFileError(names), "") ELSE Ok(data_files[1])

ChosenOrFallback(names, chosen) ==
    IF chosen # "" THEN Ok(chosen) ELSE FirstDataFile(names, DataFiles(names))

\* zip_bytes is [is_zip, names]: whether ZipFile opens the bytes, and namelist().
\* The call returns the chosen name; its content is read by the caller's parse step.
read_single_file_from_zip(zip_bytes) ==
    IF ~zip_bytes.is_zip
    THEN Fail(Err("BadZipFile", "File is not a zip file"), "")
    ELSE IF zip_bytes.names = <<>>
    THEN Fail(NoFilesError, "")
    ELSE ChosenOrFallback(zip_bytes.names, FirstPreferred(zip_bytes.names))

(***************************************************************************)
(* Payloads.  A payload is the content of an archive entry as the decoders  *)
(* and parsers see it: kind "xml" is a well-formed document whose elements  *)
(* below the root are `elements` (an element is [attrs, children], a child  *)
(* is its attribute record); kind "csv" is delimited text with a header     *)
(* line and data lines; kind "binary" is bytes that are not UTF-8.  An XML  *)
(* text read as CSV is a header without a date column (header, rows hold    *)
(* that reading); a CSV text read as XML is not well-formed.                *)
(***************************************************************************)
HasAttr(attrs, name) == name \in DOMAIN attrs

\* payload.decode("utf-8") and payload.decode("utf-8-sig")
Decodes(payload) == payload.kind # "binary"

DecodeError == Err("UnicodeDecodeError", "'utf-8' codec can't decode byte")

\* root.findall(".//*[@time]")
FindAllTime(elements) == SelectSeq(elements, LAMBDA e : HasAttr(e.attrs, "time"))

(***************************************************************************)
(* _parse_ecb_xml                                                           *)
(***************************************************************************)
\* Lines 87-92: a rate text that is not a float is skipped.
WithRate(rates, currency, rate_value) ==
    IF rate_value.ok THEN Put(rates, currency, rate_value.val) ELSE rates

\* One child of the time node, lines 83-92.
XmlRate(rates, c) ==
    IF HasAttr(c, "currency") /\ HasAttr(c, "rate")
    THEN WithRate(rates, c.currency, FloatOf(c.rate))
    ELSE rates

\* The loop over time_node.findall("./*[@currency][@rate]").
RECURSIVE XmlRates(_, _)
XmlRates(children, rates) ==
    IF children = <<>> THEN rates
    ELSE XmlRates(Tail(children), XmlRate(rates, Head(children)))


\* Lines 80-94 for one time node: the snapshot it adds, or the error of its date.
XmlSnapshot(time_node, as_of) ==
    IF as_of.ok
    THEN Ok(<< RatesSnapshot(as_of.val, XmlRates(time_node.children, EmptyDict)) >>)
    ELSE Fail(as_of.err, << >>)

RECURSIVE XmlSnapshots(_, _)

XmlAppend(nodes, snapshots, added) ==
    IF added.ok THEN XmlSnapshots(Tail(nodes), snapshots \o added.val)
    ELSE Fail(added.err, << >>)

\* The loop over the time nodes, then the sort.
XmlSnapshots(nodes, snapshots) ==
    IF nodes = <<>> THEN Ok(SortByAsOf(snapshots))
    ELSE IF ~HasAttr(Head(nodes).attrs, "time")
    THEN XmlSnapshots(Tail(nodes), snapshots)
    ELSE XmlAppend(nodes, snapshots,
                   XmlSnapshot(Head(nodes), parse_ecb_date(Head(nodes).attrs.time)))

_parse_ecb_xml(payload) ==
    IF payload.kind # "xml"
    THEN Fail(Err("ParseError", "not well-formed (invalid token)"), <<>>)
    ELSE XmlSnapshots(FindAllTime(payload.elements), <<>>)

(***************************************************************************)
(* csv.DictReader.  A row dict is the sequence of its items in insertion    *)
(* order; key_none marks the restkey None (cells beyond the header),        *)
(* value_none the restval None (a header name the row has no cell for).     *)
(***************************************************************************)
Item(key, value) == [key |-> key, key_none |-> FALSE, value |-> value, value_none |-> FALSE]

RestValItem(key) == [key |-> key, key_none |-> FALSE, value |-> "", value_none |-> TRUE]

RestKeyItem == [key |-> "", key_none |-> TRUE, value |-> "", value_none |-> FALSE]

LastIndexOf(name, fieldnames) ==
    CHOOSE i \in 1..Len(fieldnames) :
        /\ fieldnames[i] = name
        /\ \A j \in (i + 1)..Len(fieldnames) : fieldnames[j] # name

\* The positions of the first column of each name.
FirstColumns(fieldnames) ==
    SelectSeq([i \in 1..Len(fieldnames) |-> i],
              LAMBDA i : \A j \in 1..(i - 1) : fieldnames[j] # fieldnames[i])

CellItem(name, row, last) ==
    IF last <= Len(row) THEN Item(name, row[last]) ELSE RestValItem(name)

NamedItems(fieldnames, row, first) ==
    [k \in 1..Len(first) |->
        CellItem(fieldnames[first[k]], row, LastIndexOf(fieldnames[first[k]], fieldnames))]

WithRestKey(fieldnames, row, named) ==
    IF Len(row) > Len(fieldnames) THEN Append(named, RestKeyItem) ELSE named

\* dict(zip(fieldnames, row)), then restkey or restval: a name keeps the place of
\* its first column and the cell of its last one.
DictRow(fieldnames, row) ==
    WithRestKey(fieldnames, row, NamedItems(fieldnames, row, FirstColumns(fieldnames)))

DictRowsOf(header, lines) == [i \in 1..Len(lines) |-> DictRow(header, lines[i])]

\* The rows the reader yields: empty lines are skipped.
DictRows(payload) == DictRowsOf(payload.header, SelectSeq(payload.rows, LAMBDA r : r # <<>>))

\* row.get(name), with "" for None: the callers only test it for truth.
RowGet(row, name) ==
    IF \E i \in 1..Len(row) : ~row[i].key_none /\ row[i].key = name /\ ~row[i].value_none
    THEN row[CHOOSE i \in 1..Len(row) : ~row[i].key_none /\ row[i].key = name].value
    ELSE ""

\* row.get("Date"), then row.get("DATE") when that is None or empty.
DateCell(row) == IF RowGet(row, "Date") # "" THEN RowGet(row, "Date") ELSE RowGet(row, "DATE")

\* Lines 121-127 (and 148-154) for one item whose key is a text.
CsvCell(rates, ccy, it) ==
    IF ccy = "DATE" \/ it.value_none \/ Strip(it.value) = ""
    THEN Ok(rates)
    ELSE Ok(WithRate(rates, ccy, FloatOf(it.value)))

\* Lines 119-127 (and 146-154) for one item: None has no strip().
CsvItem(rates, it) ==
    IF it.key_none
    THEN Fail(Err("AttributeError", "'NoneType' object has no attribute 'strip'"), EmptyDict)
    ELSE CsvCell(rates, Upper(Strip(it.key)), it)

RECURSIVE CsvRates(_, _)

CsvNext(items, step) == IF step.ok THEN CsvRates(Tail(items), step.val) ELSE step

\* The loop over row.items() of both CSV parsers.
CsvRates(items, rates) ==
    IF items = <<>> THEN Ok(rates) ELSE CsvNext(items, CsvItem(rates, Head(items)))

SnapshotWith(as_of, rates) ==
    IF rates.ok THEN Ok(RatesSnapshot(as_of, rates.val)) ELSE Fail(rates.err, NoSnapshot)

\* The snapshot of a row whose date text is as_of's argument: lines 116-130, 143-157.
RowSnapshot(row, as_of) ==
    IF as_of.ok THEN SnapshotWith(as_of.val, CsvRates(row, EmptyDict))
    ELSE Fail(as_of.err, NoSnapshot)

(***************************************************************************)
(* _parse_ecb_daily_csv                                                     *)
(***************************************************************************)
DailyRow(row, date_str) ==
    IF date_str = ""
    THEN Fail(Err("ValueError", "Daily CSV missing 'Date' column."), NoSnapshot)
    ELSE RowSnapshot(row, parse_ecb_date(date_str))

FirstRow(rows) ==
    IF rows = <<>>
    THEN Fail(Err("ValueError", "Daily CSV has no rows."), NoSnapshot)
    ELSE DailyRow(rows[1], DateCell(rows[1]))

_parse_ecb_daily_csv(payload) ==
    IF ~Decodes(payload) THEN Fail(DecodeError, NoSnapshot) ELSE FirstRow(DictRows(payload))

(***************************************************************************)
(* _parse_ecb_hist_csv                                                      *)
(***************************************************************************)
RECURSIVE HistCsvSnapshots(_, _)

HistAppend(rows, snapshots, snapshot) ==
    IF snapshot.ok THEN HistCsvSnapshots(Tail(rows), Append(snapshots, snapshot.val))
    ELSE Fail(snapshot.err, << >>)

HistRow(rows, snapshots, date_str) ==
    IF date_str = "" THEN HistCsvSnapshots(Tail(rows), snapshots)
    ELSE HistAppend(rows, snapshots, RowSnapshot(Head(rows), parse_ecb_date(date_str)))

\* The loop over the rows, then the sort.
HistCsvSnapshots(rows, snapshots) ==
    IF rows = <<>> THEN Ok(SortByAsOf(snapshots))
    ELSE HistRow(rows, snapshots, DateCell(Head(rows)))

_parse_ecb_hist_csv(payload) ==
    IF ~Decodes(payload) THEN Fail(DecodeError, <<>>)
    ELSE HistCsvSnapshots(DictRows(payload), <<>>)

(***************************************************************************)
(* load_daily_snapshot and load_historical_snapshots, from the selected     *)
(* entry on.  The result carries the branch taken and the parser's result   *)
(* (the local `snapshots`) beside the value returned or the error raised.   *)
(***************************************************************************)
NotParsed == [ok |-> FALSE, val |-> <<>>, err |-> NoErr]

Returned(v, branch, parsed) ==
    [ok |-> TRUE, val |-> v, err |-> NoErr, branch |-> branch, parsed |-> parsed]

Raised(e, default, branch, parsed) ==
    [ok |-> FALSE, val |-> default, err |-> e, branch |-> branch, parsed |-> parsed]

\* snapshots[0] where the code takes snapshots[-1].
Earliest(snapshots) == snapshots[1]

\* snapshots[-1]
Latest(snapshots) == snapshots[Len(snapshots)]

\* load_daily_snapshot, lines 169-172.
DailyFromXml(snapshots) ==
    IF ~snapshots.ok THEN Raised(snapshots.err, NoSnapshot, "xml", snapshots)
    ELSE IF snapshots.val = <<>>
    THEN Raised(Err("ValueError", "No daily rates found in ECB daily XML."),
                NoSnapshot, "xml", snapshots)
    ELSE Returned(Latest(snapshots.val), "xml", snapshots)

\* load_daily_snapshot, line 175.
DailyFromCsv(snapshot) ==
    IF snapshot.ok THEN Returned(snapshot.val, "csv", snapshot)
    ELSE Raised(snapshot.err, NoSnapshot, "csv", snapshot)

DailyBySuffix(filename, lowered, payload) ==
    IF EndsWith(lowered, ".xml")
    THEN IF ~Decodes(payload) THEN Raised(DecodeError, NoSnapshot, "xml", NotParsed)
         ELSE DailyFromXml(_parse_ecb_xml(payload))
    ELSE IF EndsWith(lowered, ".csv")
    THEN DailyFromCsv(_parse_ecb_daily_csv(payload))
    ELSE Raised(Err("ValueError", "Unsupported daily file format in ZIP: " \o filename),
                NoSnapshot, "unsupported", NotParsed)

\* load_daily_snapshot, lines 167-177.
load_daily_file(filename, payload) == DailyBySuffix(filename, Lower(filename), payload)

\* load_historical_snapshots, lines 186-189 and 192-195.
HistFrom(snapshots, branch, message) ==
    IF ~snapshots.ok THEN Raised(snapshots.err, <<>>, branch, snapshots)
    ELSE IF snapshots.val = <<>>
    THEN Raised(Err("ValueError", message), <<>>, branch, snapshots)
    ELSE Returned(snapshots.val, branch, snapshots)

HistBySuffix(filename, lowered, payload) ==
    IF EndsWith(lowered, ".xml")
    THEN IF ~Decodes(payload) THEN Raised(DecodeError, <<>>, "xml", NotParsed)
         ELSE HistFrom(_parse_ecb_xml(payload), "xml",
                       "No historical rates found in ECB historical XML.")
    ELSE IF EndsWith(lowered, ".csv")
    THEN HistFrom(_parse_ecb_hist_csv(payload), "csv",
                  "No historical rates found in ECB historical CSV.")
    ELSE Raised(Err("ValueError", "Unsupported historical file format in ZIP: " \o filename),
                <<>>, "unsupported", NotParsed)

\* load_historical_snapshots, lines 184-197.
load_historical_file(filename, payload) == HistBySuffix(filename, Lower(filename), payload)

(***************************************************************************)
(* select_currencies, compute_historical_means, render_markdown_table       *)
(***************************************************************************)
TARGET_CURRENCIES == << "USD", "SEK", "GBP", "JPY" >>

Codes(currencies) == {currencies[i] : i \in 1..Len(currencies)}

select_currencies(rates, currencies) ==
    [ccy \in Codes(currencies) \cap (DOMAIN rates) |-> rates[ccy]]

\* buckets[ccy] once the loop over the series is over.
Bucket(historical, ccy) ==
    LET having == SelectSeq(historical, LAMBDA snap : ccy \in DOMAIN snap.rates)
    IN  [i \in 1..Len(having) |-> having[i].rates[ccy]]

RECURSIVE MeansLoop(_, _, _)

MeanPut(historical, currencies, means, mean) ==
    IF mean.ok
    THEN MeansLoop(historical, Tail(currencies), Put(means, Head(currencies), mean.val))
    ELSE Fail(mean.err, EmptyDict)

MeanOf(historical, currencies, means, values) ==
    IF values = <<>> THEN MeansLoop(historical, Tail(currencies), means)
    ELSE MeanPut(historical, currencies, means, Fmean(values))

\* The loop over buckets.items(), lines 220-224.
MeansLoop(historical, currencies, means) ==
    IF currencies = <<>> THEN Ok(means)
    ELSE MeanOf(historical, currencies, means, Bucket(historical, Head(currencies)))

compute_historical_means(historical, currencies) ==
    MeansLoop(historical, currencies, EmptyDict)

\* date.isoformat()
IsoFormat(d) ==
    ZeroPad(NatText(d[1]), 4) \o "-" \o ZeroPad(NatText(d[2]), 2) \o "-" \o ZeroPad(NatText(d[3]), 2)

\* f"{value:.6f}" if value is not None else "N/A"
Cell(mapping, ccy) == IF ccy \in DOMAIN mapping THEN Format6(mapping[ccy]) ELSE "N/A"

RECURSIVE TableRows(_, _, _)
TableRows(daily, means, currencies) ==
    IF currencies = <<>> THEN ""
    ELSE "| " \o Head(currencies) \o " | " \o Cell(daily.rates, Head(currencies))
             \o " | " \o Cell(means, Head(currencies)) \o " |\n"
             \o TableRows(daily, means, Tail(currencies))

render_markdown_table(daily, means, currencies) ==
    "# ECB Exchange Rates (EUR base)\n\n"
        \o "**Daily rates date:** " \o IsoFormat(daily.as_of) \o "\n\n"
        \o "| Currency Code | Rate | Mean Historical Rate |\n"
        \o "|---|---:|---:|\n"
        \o TableRows(daily, means, currencies)

\* repr of a list of names, as an f-string embeds it.
RECURSIVE ReprItems(_)
ReprItems(entries) ==
    IF entries = <<>> THEN ""
    ELSE "'" \o Head(entries) \o "'"
             \o (IF Len(entries) > 1 THEN ", " ELSE "") \o ReprItems(Tail(entries))

\* str(exc)
ErrText(e) == IF e.entries = <<>> THEN e.msg ELSE e.msg \o "[" \o ReprItems(e.entries) \o "]"

(***************************************************************************)
(* Inputs: what the two downloads and the archive entries may hold.         *)
(***************************************************************************)
MaxEntries == 3

MaxElements == 2

MaxRows == 2

SeqsUpTo(S, n) == UNION {[1..k -> S] : k \in 0..n}

NamePool == { "eurofxref-hist.xml", "eurofxref.csv", "Rates.XML", "extra.Csv", "README.txt" }

ZipInputs ==
    {[is_zip |-> TRUE, names |-> ns] : ns \in SeqsUpTo(NamePool, MaxEntries)}
        \cup {[is_zip |-> FALSE, names |-> <<>>]}

Element(attrs, children) == [attrs |-> attrs, children |-> children]

ElementPool ==
    { Element([time |-> "2024-01-02"],
              << [currency |-> "USD", rate |-> "1.5"], [currency |-> "JPY", rate |-> "160"] >>),
      Element([time |-> "1 January 2024"],
              << [currency |-> "USD", rate |-> "abc"], [currency |-> "GBP", rate |-> "0.85"] >>),
      Element([time |-> "not-a-date"],
              << [currency |-> "USD", rate |-> "1"] >>),
      Element([time |-> " 2024-01-03 "],
              << [currency |-> "usd", rate |-> "-2"], [currency |-> "USD", rate |-> "inf"] >>),
      Element([time |-> "2024-01-01"],
              << [currency |-> "USD", rate |-> "-inf"], [currency |-> "SEK"] >>),
      Element([id |-> "outer"], << >>) }

HeaderPool ==
    { << "Date", "USD", "JPY" >>,
      << "DATE", " usd", "USD" >>,
      << "Date", "USD", "USD" >> }

RowPool ==
    { << >>,
      << "2024-01-02", "1.5", "160" >>,
      << "1 January 2024", "3", " " >>,
      << "bad", "3", "1.5" >>,
      << "2024-01-03", "inf" >>,
      << "", "3", "abc" >>,
      << "2024-01-02", "1.5", "3", "9" >> }

XmlPayload(elements) ==
    [kind |-> "xml", elements |-> elements,
     header |-> << "<Envelope>" >>, rows |-> << << "</Envelope>" >> >>]

CsvPayload(header, rows) ==
    [kind |-> "csv", elements |-> << >>, header |-> header, rows |-> rows]

BinaryPayload == [kind |-> "binary", elements |-> << >>, header |-> << >>, rows |-> << >>]

NoPayload == [kind |-> "none", elements |-> << >>, header |-> << >>, rows |-> << >>]

Payloads ==
    {XmlPayload(es) : es \in SeqsUpTo(ElementPool, MaxElements)}
        \cup {CsvPayload(h, rs) : h \in HeaderPool, rs \in SeqsUpTo(RowPool, MaxRows)}
        \cup {BinaryPayload}

\* What requests.get and raise_for_status raise.
DownloadErrors ==
    { Err("ConnectionError", "Max retries exceeded"),
      Err("HTTPError", "404 Client Error: Not Found") }

(***************************************************************************)
(* main                                                                     *)
(***************************************************************************)
VARIABLES
    pc,                  \* the statement main is at
    zip_bytes,           \* the archive of the loader that is running
    filename,            \* the entry it selected
    payload,             \* the content of that entry
    loaded,              \* what its parse step did: branch, parser result, outcome
    daily,               \* main's local
    historical,          \* main's local
    daily_selected,      \* main's local
    historical_selected, \* main's local
    means,               \* the result of compute_historical_means
    md,                  \* main's local
    report,              \* the text of exchange_rates.md, "" before a write
    writes,              \* the times the report file was opened for writing
    stdout,
    stderr,
    exc,                 \* the exception being propagated
    exit_code,           \* main's return value, -1 while it runs
    steps                \* the steps of the try block completed so far, in order

vars ==
    << pc, zip_bytes, filename, payload, loaded, daily, historical, daily_selected,
       historical_selected, means, md, report, writes, stdout, stderr, exc, exit_code, steps >>

NoZip == [is_zip |-> FALSE, names |-> << >>]

NotLoaded == Raised(NoErr, << >>, "", NotParsed)

NotComputed == Fail(NoErr, EmptyDict)

OUTPUT_PATH == "exchange_rates.md"

Init ==
    /\ pc = "load_daily"
    /\ zip_bytes = NoZip
    /\ filename = ""
    /\ payload = NoPayload
    /\ loaded = NotLoaded
    /\ daily = NoSnapshot
    /\ historical = << >>
    /\ daily_selected = NoSnapshot
    /\ historical_selected = << >>
    /\ means = NotComputed
    /\ md = ""
    /\ report = ""
    /\ writes = 0
    /\ stdout = ""
    /\ stderr = ""
    /\ exc = NoErr
    /\ exit_code = -1
    /\ steps = << >>

\* The calls on every input, evaluated once.
SelectedEntry == [zb \in ZipInputs |-> read_single_file_from_zip(zb)]

DailyFile == [f \in NamePool, p \in Payloads |-> load_daily_file(f, p)]

HistoricalFile == [f \in NamePool, p \in Payloads |-> load_historical_file(f, p)]

loaderLocals == << zip_bytes, filename, payload, loaded >>

mainLocals == << daily, historical, daily_selected, historical_selected, means, md >>

outputs == << report, writes, stdout, stderr, exit_code >>

\* The outcome of read_single_file_from_zip on the archive zb.
SelectEntry(zb, selected, read_pc) ==
    /\ zip_bytes' = zb
    /\ filename' = selected.val
    /\ exc' = selected.err
    /\ pc' = IF selected.ok THEN read_pc ELSE "except"

\* The outcome of a loader's parse step on the content p.
ParseEntry(p, result, return_pc) ==
    /\ payload' = p
    /\ loaded' = result
    /\ exc' = result.err
    /\ pc' = IF result.ok THEN return_pc ELSE "except"

\* load_daily_snapshot, line 164, and read_single_file_from_zip, lines 47-66:
\* the download, the listing and the choice of the entry.
DailySelect ==
    /\ pc = "load_daily"
    /\ \E zb \in ZipInputs : SelectEntry(zb, SelectedEntry[zb], "daily_read")
    /\ UNCHANGED << payload, loaded, mainLocals, outputs, steps >>

\* download_zip raises.
DailyDownloadFails ==
    /\ pc = "load_daily"
    /\ \E e \in DownloadErrors : exc' = e
    /\ pc' = "except"
    /\ UNCHANGED << loaderLocals, mainLocals, outputs, steps >>

\* read_single_file_from_zip, lines 67-68: the archive is closed, the name returned.
DailyReadEntry ==
    /\ pc = "daily_read"
    /\ zip_bytes' = NoZip
    /\ pc' = "daily_parse"
    /\ UNCHANGED << filename, payload, loaded, mainLocals, outputs, exc, steps >>

\* load_daily_snapshot, lines 167-177, on the content of the entry.
DailyParse ==
    /\ pc = "daily_parse"
    /\ \E p \in Payloads : ParseEntry(p, DailyFile[filename, p], "daily_return")
    /\ UNCHANGED << zip_bytes, filename, mainLocals, outputs, steps >>

\* main, line 22.
DailyAssign ==
    /\ pc = "daily_return"
    /\ daily' = loaded.val
    /\ zip_bytes' = NoZip
    /\ filename' = ""
    /\ payload' = NoPayload
    /\ loaded' = NotLoaded
    /\ pc' = "load_historical"
    /\ steps' = Append(steps, "load_daily")
    /\ UNCHANGED << historical, daily_selected, historical_selected, means, md, outputs, exc >>

\* load_historical_snapshots, line 181, and read_single_file_from_zip, lines 47-66.
HistSelect ==
    /\ pc = "load_historical"
    /\ \E zb \in ZipInputs : SelectEntry(zb, SelectedEntry[zb], "historical_read")
    /\ UNCHANGED << payload, loaded, mainLocals, outputs, steps >>

HistDownloadFails ==
    /\ pc = "load_historical"
    /\ \E e \in DownloadErrors : exc' = e
    /\ pc' = "except"
    /\ UNCHANGED << loaderLocals, mainLocals, outputs, steps >>

HistReadEntry ==
    /\ pc = "historical_read"
    /\ zip_bytes' = NoZip
    /\ pc' = "historical_parse"
    /\ UNCHANGED << filename, payload, loaded, mainLocals, outputs, exc, steps >>

\* load_historical_snapshots, lines 184-197, on the content of the entry.
HistParse ==
    /\ pc = "historical_parse"
    /\ \E p \in Payloads : ParseEntry(p, HistoricalFile[filename, p], "historical_return")
    /\ UNCHANGED << zip_bytes, filename, mainLocals, outputs, steps >>

\* main, line 23.
HistAssign ==
    /\ pc = "historical_return"
    /\ historical' = loaded.val
    /\ zip_bytes' = NoZip
    /\ filename' = ""
    /\ payload' = NoPayload
    /\ loaded' = NotLoaded
    /\ pc' = "select"
    /\ steps' = Append(steps, "load_historical")
    /\ UNCHANGED << daily, daily_selected, historical_selected, means, md, outputs, exc >>

\* main, lines 25-36.
SelectTargets ==
    /\ pc = "select"
    /\ daily_selected' =
           RatesSnapshot(daily.as_of, select_currencies(daily.rates, TARGET_CURRENCIES))
    /\ historical_selected' =
           [i \in 1..Len(historical) |->
               RatesSnapshot(historical[i].as_of,
                             select_currencies(historical[i].rates, TARGET_CURRENCIES))]
    /\ pc' = "means"
    /\ steps' = Append(steps, "select")
    /\ UNCHANGED << loaderLocals, daily, historical, means, md, outputs, exc >>

MeansComputed(result) ==
    /\ means' = result
    /\ exc' = result.err
    /\ pc' = IF result.ok THEN "render" ELSE "except"
    /\ steps' = IF result.ok THEN Append(steps, "means") ELSE steps

\* main, line 38.
ComputeMeans ==
    /\ pc = "means"
    /\ MeansComputed(compute_historical_means(historical_selected, TARGET_CURRENCIES))
    /\ UNCHANGED << loaderLocals, daily, historical, daily_selected, historical_selected,
                    md, outputs >>

\* main, line 40.
Render ==
    /\ pc = "render"
    /\ md' = render_markdown_table(daily_selected, means.val, TARGET_CURRENCIES)
    /\ pc' = "write"
    /\ steps' = Append(steps, "render")
    /\ UNCHANGED << loaderLocals, daily, historical, daily_selected, historical_selected,
                    means, outputs, exc >>

\* main, line 41: write_text raises.  Either the file could not be opened and is
\* as it was, or it was opened, which empties it, and the writing failed.
WriteTextFails ==
    /\ pc = "write"
    /\ \E opened \in BOOLEAN :
          /\ report' = IF opened THEN "" ELSE report
          /\ writes' = IF opened THEN writes + 1 ELSE writes
          /\ exc' = IF opened
                    THEN Err("OSError", "[Errno 28] No space left on device")
                    ELSE Err("PermissionError",
                             "[Errno 13] Permission denied: 'exchange_rates.md'")
    /\ pc' = "except"
    /\ UNCHANGED << loaderLocals, mainLocals, stdout, stderr, exit_code, steps >>

\* main, line 41: write_text replaces the text of the file.
WriteText ==
    /\ pc = "write"
    /\ report' = md
    /\ writes' = writes + 1
    /\ pc' = "wrote"
    /\ steps' = Append(steps, "write")
    /\ UNCHANGED << loaderLocals, mainLocals, stdout, stderr, exc, exit_code >>

\* main, lines 43-44.
ReturnSuccess ==
    /\ pc = "wrote"
    /\ stdout' = "Wrote: " \o OUTPUT_PATH
    /\ exit_code' = 0
    /\ pc' = "done"
    /\ UNCHANGED << loaderLocals, mainLocals, report, writes, stderr, exc, steps >>

\* The handler returning as after a success.
ReturnZero ==
    /\ pc = "except"
    /\ stderr' = "Error: " \o ErrText(exc)
    /\ exit_code' = 0
    /\ pc' = "done"
    /\ UNCHANGED << loaderLocals, mainLocals, report, writes, stdout, exc, steps >>

\* main, lines 46-48.
HandleException ==
    /\ pc = "except"
    /\ stderr' = "Error: " \o ErrText(exc)
    /\ exit_code' = 1
    /\ pc' = "done"
    /\ UNCHANGED << loaderLocals, mainLocals, report, writes, stdout, exc, steps >>

Next ==
    \/ DailySelect
    \/ DailyDownloadFails
    \/ DailyReadEntry
    \/ DailyParse
    \/ DailyAssign
    \/ HistSelect
    \/ HistDownloadFails
    \/ HistReadEntry
    \/ HistParse
    \/ HistAssign
    \/ SelectTargets
    \/ ComputeMeans
    \/ Render
    \/ WriteText
    \/ WriteTextFails
    \/ ReturnSuccess
    \/ HandleException

Spec == Init /\ [][Next]_vars

(***************************************************************************)
(* Properties of read_single_file_from_zip.  While a loader is at its read  *)
(* step, or has failed in the selection, zip_bytes is the archive it        *)
(* inspected; the parse step starts with the archive closed.                *)
(***************************************************************************)
\* The name ends in .xml or .csv, compared case-insensitively.
EndsInXmlOrCsv(n) == Len(n) >= 4 /\ Lower(SubSeq(n, Len(n) - 3, Len(n))) \in {".xml", ".csv"}

Selecting == zip_bytes.is_zip /\ pc \in {"daily_read", "historical_read"}

SelectionFailed == zip_bytes.is_zip /\ pc \in {"except", "done"}

\* C1: for a non-empty listing the entry returned is the first name of the
\* preference list that the archive holds, wherever it is listed; when the
\* archive holds none of the four names, it is the first entry in listing
\* order whose name ends in .xml or .csv in any case; and an entry is returned
\* whenever the listing holds such a name.
C1_SelectionPolicy ==
    LET names == zip_bytes.names
        held  == {i \in 1..4 : \E k \in 1..Len(names) : names[k] = PREFERRED[i]}
        data  == {k \in 1..Len(names) : EndsInXmlOrCsv(names[k])}
    IN  /\ Selecting /\ held # {} =>
              \E i \in held : filename = PREFERRED[i] /\ \A j \in held : i <= j
        /\ Selecting /\ held = {} =>
              \E k \in data : filename = names[k] /\ \A j \in data : k <= j
        /\ SelectionFailed /\ names # << >> => held = {} /\ data = {}

\* C1 witness: a preferred name listed last, after another preferred name
\* that comes later in the preference list, is the one returned.
C1_Witness ==
    /\ pc = "daily_read"
    /\ zip_bytes.names = << "README.txt", "eurofxref.csv", "eurofxref-hist.xml" >>
    /\ filename = "eurofxref-hist.xml"

C10_UnsupportedUnreachable ==
    /\ loaded.branch # "unsupported"
    /\ pc \in {"daily_read", "daily_parse", "daily_return",
               "historical_read", "historical_parse", "historical_return"} =>
           EndsInXmlOrCsv(filename)

\* C10 witness: a fallback entry with a mixed-case suffix went down the CSV branch.
C10_Witness == filename = "extra.Csv" /\ loaded.branch = "csv" /\ pc = "historical_return"

(***************************************************************************)
(* Properties of the parsers and the loaders.  After a loader's parse step  *)
(* payload is the content it read and loaded is what the step did, until    *)
(* main assigns the result; steps tells which loader it was.                *)
(***************************************************************************)
DailyLoaded == steps = << >> /\ loaded.branch # ""

HistLoaded == steps = << "load_daily" >> /\ loaded.branch # ""

\* The elements of the document that carry a date text, and those whose text is a date.
Timed(elements) == {i \in 1..Len(elements) : HasAttr(elements[i].attrs, "time")}

Dated(elements) ==
    {i \in Timed(elements) : parse_ecb_date(elements[i].attrs.time).ok}

\* The rows the reader yields that carry a date text, and those whose text is a date.
TimedRows(rows) == {i \in 1..Len(rows) : DateCell(rows[i]) # ""}

DatedRows(rows) == {i \in TimedRows(rows) : parse_ecb_date(DateCell(rows[i])).ok}

NoRestKey(rows) == \A i \in 1..Len(rows) : \A k \in 1..Len(rows[i]) : ~rows[i][k].key_none

\* C3: a date text that cannot be parsed is skipped: the XML parse and the
\* historical CSV parse do not fail on it, and they return one snapshot for
\* every element or row whose date text can be parsed.
C3_BadDateSkipped ==
    /\ HistLoaded /\ loaded.branch = "xml" /\ payload.kind = "xml" =>
          /\ loaded.parsed.ok
          /\ Len(loaded.parsed.val) = Cardinality(Dated(payload.elements))
    /\ HistLoaded /\ loaded.branch = "csv" /\ payload.kind = "csv"
                  /\ NoRestKey(DictRows(payload)) =>
          /\ loaded.parsed.ok
          /\ Len(loaded.parsed.val) = Cardinality(DatedRows(DictRows(payload)))

IsUpperCode(key) ==
    /\ key # ""
    /\ \A i \in 1..Len(key) : \E k \in 1..26 : Char(key, i) = Char(UpperLetters, k)

SnapshotInvariants(snapshot) ==
    \A key \in DOMAIN snapshot.rates :
        /\ IsUpperCode(key)
        /\ IsFinite(snapshot.rates[key])
        /\ snapshot.rates[key].n >= 0

\* C6: every snapshot a parser has built has only non-empty upper-case
\* alphabetic codes as keys and only finite, non-negative numbers as values.
C6_SnapshotInvariants ==
    /\ pc \notin {"load_daily", "daily_read", "daily_parse", "daily_return"} /\ steps # << >> =>
           SnapshotInvariants(daily)
    /\ \A i \in 1..Len(historical) : SnapshotInvariants(historical[i])

\* The error the spec calls NoDataError.
NoDataError(message) == Err("ValueError", message)

\* C7: from an XML entry load_daily_snapshot returns one of the parsed
\* snapshots, its date not before the date of any element of the document,
\* and it raises the no-data error exactly when the parse gave no snapshot.
C7_DailyXmlLatest ==
    DailyLoaded /\ loaded.branch = "xml" /\ payload.kind = "xml" =>
        /\ loaded.ok =>
              /\ \E i \in 1..Len(loaded.parsed.val) : loaded.parsed.val[i] = loaded.val
              /\ \A i \in Timed(payload.elements) :
                    DateKey(parse_ecb_date(payload.elements[i].attrs.time).val)
                        <= DateKey(loaded.val.as_of)
              /\ \E i \in Timed(payload.elements) :
                    parse_ecb_date(payload.elements[i].attrs.time).val = loaded.val.as_of
        /\ loaded.err = NoDataError("No daily rates found in ECB daily XML.")
              <=> loaded.parsed.ok /\ loaded.parsed.val = << >>
        /\ loaded.parsed.ok /\ loaded.parsed.val = << >> <=> Timed(payload.elements) = {}

\* C7 witness: the latest date comes first in the document and is the one returned.
C7_Witness ==
    /\ DailyLoaded /\ loaded.branch = "xml" /\ loaded.ok
    /\ Len(payload.elements) = 2
    /\ payload.elements[1].attrs = [time |-> "2024-01-02"]
    /\ payload.elements[2].attrs = [time |-> "1 January 2024"]
    /\ loaded.val.as_of = << 2024, 1, 2 >>

\* C8: a series load_historical_snapshots returns, from XML and from CSV, is
\* not empty and is in non-decreasing order of as_of, with one snapshot for
\* every dated element or row; when the parse gives no snapshot the call
\* raises the no-data error of its branch.
C8_HistoricalSorted ==
    /\ HistLoaded /\ loaded.ok =>
          /\ loaded.val # << >>
          /\ \A i \in 1..(Len(loaded.val) - 1) :
                DateKey(loaded.val[i].as_of) <= DateKey(loaded.val[i + 1].as_of)
          /\ loaded.branch = "xml" => Len(loaded.val) = Cardinality(Timed(payload.elements))
          /\ loaded.branch = "csv" => Len(loaded.val) = Cardinality(TimedRows(DictRows(payload)))
    /\ HistLoaded /\ loaded.parsed.ok /\ loaded.parsed.val = << >> =>
          /\ ~loaded.ok
          /\ loaded.branch = "xml" =>
                loaded.err = NoDataError("No historical rates found in ECB historical XML.")
          /\ loaded.branch = "csv" =>
                loaded.err = NoDataError("No historical rates found in ECB historical CSV.")
    /\ pc \in {"select", "means", "render", "write", "wrote"} => historical # << >>

\* C8 witness: two rows in descending order of date come back in ascending order.
C8_Witness ==
    /\ HistLoaded /\ loaded.branch = "csv" /\ loaded.ok
    /\ payload.rows = << << "2024-01-02", "1.5", "160" >>, << "1 January 2024", "3", " " >> >>
    /\ Len(loaded.val) = 2
    /\ loaded.val[1].as_of = << 2024, 1, 1 >>
    /\ loaded.val[2].as_of = << 2024, 1, 2 >>

\* The first line of the text that is a data row.
FirstDataRow(rows) == rows[CHOOSE i \in 1..Len(rows) : rows[i] # << >> /\ \A j \in 1..(i - 1) : rows[j] = << >>]

\* The columns of the header that give a rate in the row: not the date column,
\* with a cell that is neither blank nor unparsable as a number.
RateColumns(header, row) ==
    {i \in 1..Len(header) :
        /\ Upper(Strip(header[i])) # "DATE"
        /\ i <= Len(row)
        /\ Strip(row[i]) # ""
        /\ FloatOf(row[i]).ok}

\* C9: the daily CSV snapshot comes from the first data row only: its rates
\* have a key exactly for every column other than the date column whose cell in
\* that row is neither blank nor unparsable, under the upper-cased column name,
\* and of two such columns of one name the later one gives the value.
C9_DailyCsvColumns ==
    DailyLoaded /\ loaded.branch = "csv" /\ payload.kind = "csv" /\ loaded.ok =>
        LET header == payload.header
            row    == FirstDataRow(payload.rows)
            cols   == RateColumns(header, row)
        IN  /\ DOMAIN loaded.val.rates = {Upper(Strip(header[i])) : i \in cols}
            /\ \A i \in cols :
                  (\A j \in cols : Upper(Strip(header[j])) = Upper(Strip(header[i])) => j <= i)
                      => loaded.val.rates[Upper(Strip(header[i]))] = FloatOf(row[i]).val

(***************************************************************************)
(* Properties of compute_historical_means and of main.                      *)
(***************************************************************************)
\* The values of the code over the snapshots of the series that hold it.
ValuesOf(series, ccy) ==
    LET holding == SelectSeq(series, LAMBDA snap : ccy \in DOMAIN snap.rates)
    IN  [i \in 1..Len(holding) |-> holding[i].rates[ccy]]

MeansDone == Len(steps) >= 3 /\ pc # "means"

\* C5: compute_historical_means returns a mapping whose keys are exactly the
\* requested codes that some snapshot of the series holds, each with the sum
\* of its values over the snapshots that hold it divided by their number.
C5_MeansOfPresentCodes ==
    MeansDone =>
        /\ means.ok
        /\ DOMAIN means.val =
               {c \in Codes(TARGET_CURRENCIES) : ValuesOf(historical_selected, c) # << >>}
        /\ \A c \in DOMAIN means.val :
               LET values == ValuesOf(historical_selected, c)
               IN  (\A i \in 1..Len(values) : IsFinite(values[i])) =>
                       /\ IsFinite(means.val[c])
                       /\ Fin(means.val[c].n * Len(values), means.val[c].d) = SumFin(values)

TryBlock == << "load_daily", "load_historical", "select", "means", "render", "write" >>

\* C4: the report file is written only once the two loads, the selection, the
\* means and the rendering are done; a run in which one of them fails never
\* writes, prints "Error: " and the message of the exception and returns 1;
\* main returns 0 only when the report holds the rendered text.
C4_WriteAfterAllSteps ==
    /\ writes > 0 => Len(steps) >= 5 /\ SubSeq(steps, 1, 5) = SubSeq(TryBlock, 1, 5)
    /\ Len(steps) <= 6 /\ steps = SubSeq(TryBlock, 1, Len(steps))
    /\ pc \in {"except", "done"} /\ Len(steps) < 5 =>
           writes = 0 /\ report = "" /\ exc # NoErr
    /\ pc = "done" /\ Len(steps) < 6 =>
           exit_code = 1 /\ stderr = "Error: " \o ErrText(exc) /\ exc.msg # "" /\ stdout = ""
    /\ pc = "done" => exit_code \in {0, 1}
    /\ pc # "done" => exit_code = -1
    /\ exit_code = 0 => steps = TryBlock /\ writes = 1 /\ report = md /\ md # "" /\ stderr = ""

\* C4 witness: the means failed, nothing was written and main returned 1.
C4_Witness ==
    /\ pc = "done"
    /\ steps = << "load_daily", "load_historical", "select" >>
    /\ exc.msg = "-inf + inf in fsum"
    /\ stderr = "Error: -inf + inf in fsum"
    /\ writes = 0
    /\ exit_code = 1

====
